---- MODULE Spec2Model ----
(***************************************************************************)
(* A model of namedconf: the lossless named.conf parser (parser.go), the   *)
(* node model and writer (Raw, Stmt, File) and the editing helpers         *)
(* (editing.go).                                                           *)
(*                                                                         *)
(* A byte string is a sequence of one-character strings.  Index variables  *)
(* keep Go's 0-based values; At and Slice translate to TLA+'s 1-based      *)
(* sequences.                                                              *)
(***************************************************************************)
EXTENDS Integers, Sequences, FiniteSets, TLC

VARIABLES
  src,       \* File.src / parser.src: the input bytes
  nodes,     \* File.Nodes
  out,       \* the bytes returned by the last File.Bytes()
  visited,   \* the statements the last File.Bytes() called writeTo on, with the branch taken
  made,      \* the statement returned by the last NewSimpleStmt / NewBlockStmt
  lastOp,    \* the last operation applied, with its arguments
  nEdits,    \* the number of mutator calls made so far
  pc,        \* "start" | "parsed" | "written" | "built"
  err,       \* the error returned by Parse (TRUE: non-nil)
  fallback,  \* parseRange took the Raw fallback of line 118 during Parse
  panicked   \* a run-time panic (index or slice bounds out of range) happened

vars == <<src, nodes, out, visited, made, lastOp, nEdits, pc, err, fallback, panicked>>

-----------------------------------------------------------------------------
(* Bounds of the model *)

\* longest input handed to Parse that is enumerated exhaustively
MaxLen == 4
\* longest input over the structural bytes (Core) that is enumerated exhaustively
MaxCoreLen == 6
\* longest head handed to NewSimpleStmt / NewBlockStmt
MaxHead == 3
\* most mutator calls applied to one parsed file
MaxEdits == 2
\* longest input over the structural bytes that is parsed and then edited
MaxEditLen == 3

-----------------------------------------------------------------------------
(* Byte strings *)

At(s, i) == s[i + 1]
Slice(s, a, b) == SubSeq(s, a + 1, b)

StringsOver(A, n) == UNION { [1..k -> A] : k \in 0..n }

RECURSIVE Concat(_)
Concat(ss) == IF ss = <<>> THEN <<>> ELSE Head(ss) \o Concat(Tail(ss))

\* bytes.LastIndexByte
RECURSIVE LastIndexByteFrom(_, _, _)
LastIndexByteFrom(s, c, i) ==
  IF i < 0 THEN -1
  ELSE IF At(s, i) = c THEN i
  ELSE LastIndexByteFrom(s, c, i - 1)

\* a search that starts one byte short of the end
LastIndexByteSkipsLast(s, c) == LastIndexByteFrom(s, c, Len(s) - 2)

LastIndexByte(s, c) == LastIndexByteFrom(s, c, Len(s) - 1)

isSpace(b) == b \in {" ", "\t", "\n", "\r", "\f"}

\* unicode.IsSpace on a byte converted to a rune; "VT", "NEL" and "NBSP" stand
\* for the bytes 0x0B, 0x85 and 0xA0
unicodeIsSpace(b) == b \in {" ", "\t", "\n", "\r", "\f", "VT", "NEL", "NBSP"}

RECURSIVE trimRightSpace(_)
trimRightSpace(s) ==
  IF Len(s) > 0 /\ isSpace(s[Len(s)]) THEN trimRightSpace(SubSeq(s, 1, Len(s) - 1))
  ELSE s

\* strings.TrimRight(s, cutset) and strings.TrimLeft(s, cutset)
RECURSIVE TrimRightSet(_, _)
TrimRightSet(s, cut) ==
  IF Len(s) > 0 /\ s[Len(s)] \in cut THEN TrimRightSet(SubSeq(s, 1, Len(s) - 1), cut)
  ELSE s

RECURSIVE TrimLeftSet(_, _)
TrimLeftSet(s, cut) ==
  IF Len(s) > 0 /\ s[1] \in cut THEN TrimLeftSet(Tail(s), cut)
  ELSE s

\* strings.Trim(s, cutset)
TrimSet(s, cut) == TrimLeftSet(TrimRightSet(s, cut), cut)

\* strings.TrimSpace
TrimSpace(s) == TrimSet(s, {" ", "\t", "\n", "\r", "\f", "VT", "NEL", "NBSP"})

UpperCase ==
  <<"A", "B", "C", "D", "E", "F", "G", "H", "I", "J", "K", "L", "M",
    "N", "O", "P", "Q", "R", "S", "T", "U", "V", "W", "X", "Y", "Z">>
LowerCase ==
  <<"a", "b", "c", "d", "e", "f", "g", "h", "i", "j", "k", "l", "m",
    "n", "o", "p", "q", "r", "s", "t", "u", "v", "w", "x", "y", "z">>

\* strings.ToLower on one ASCII byte
ToLowerByte(c) ==
  IF \E k \in DOMAIN UpperCase : UpperCase[k] = c
  THEN LowerCase[CHOOSE k \in DOMAIN UpperCase : UpperCase[k] = c]
  ELSE c

ToLower(s) == [k \in 1..Len(s) |-> ToLowerByte(s[k])]

-----------------------------------------------------------------------------
(* firstIdent (parser.go) *)

\* the index of the first "\n" at or after j, or len(s)
RECURSIVE SkipToNewline(_, _)
SkipToNewline(s, j) ==
  IF j < Len(s) /\ At(s, j) # "\n" THEN SkipToNewline(s, j + 1) ELSE j

\* the loop of lines 314-316
RECURSIVE SkipToStarSlash(_, _)
SkipToStarSlash(s, j) ==
  IF j + 1 < Len(s) /\ ~(At(s, j) = "*" /\ At(s, j + 1) = "/")
  THEN SkipToStarSlash(s, j + 1)
  ELSE j

\* the first loop of firstIdent: the value of i when it ends
RECURSIVE SkipLeading(_, _)
SkipLeading(s, i) ==
  IF ~(i < Len(s)) THEN i
  ELSE IF unicodeIsSpace(At(s, i)) THEN SkipLeading(s, i + 1)
  ELSE IF At(s, i) = "#" THEN SkipLeading(s, SkipToNewline(s, i + 1) + 1)
  ELSE IF At(s, i) = "/" /\ i + 1 < Len(s) /\ At(s, i + 1) \in {"/", "*"} THEN
    IF At(s, i + 1) = "/" THEN SkipLeading(s, SkipToNewline(s, i + 2) + 1)
    ELSE LET j == SkipToStarSlash(s, i + 2)
         IN  SkipLeading(s, IF j + 1 < Len(s) THEN j + 2 ELSE j)
  ELSE i

\* the second loop of firstIdent
RECURSIVE CollectToken(_, _)
CollectToken(s, i) ==
  IF i < Len(s) /\ ~(isSpace(At(s, i)) \/ At(s, i) \in {"{", ";"})
  THEN CollectToken(s, i + 1)
  ELSE i

\* lines 334-337: the token s[start:i], trimmed and unquoted; ok is FALSE when
\* the slice expression panics (slice bounds out of range)
tokenOf(s, start, i) ==
  IF start > Len(s) \/ i > Len(s) \/ start > i
  THEN [ok |-> FALSE, tok |-> <<>>]
  ELSE [ok |-> TRUE, tok |-> TrimSet(TrimSpace(Slice(s, start, i)), {"\""})]

\* lines 326-337, from the value of i the first loop ends with
identFrom(s, start) == tokenOf(s, start, CollectToken(s, start))

\* firstIdent: [ok, tok]
firstIdent(s) == identFrom(s, SkipLeading(s, 0))

-----------------------------------------------------------------------------
(* Nodes (Raw and Stmt) *)

Raw(text, start, end) ==
  [kind |-> "Raw", Text |-> text, start |-> start, end |-> end]

IsStmt(n) == n.kind = "Stmt"
IsRaw(n) == n.kind = "Raw"

-----------------------------------------------------------------------------
(* parseRange and buildStmt (parser.go) *)

RECURSIVE findStmtStartFrom(_, _, _)
findStmtStartFrom(s, i, pos) ==
  IF i < pos /\ isSpace(At(s, i)) THEN findStmtStartFrom(s, i + 1, pos) ELSE i

findStmtStart(s, last, pos) == findStmtStartFrom(s, last, pos)

\* one iteration of the scanning loop of buildStmt (lines 161-234)
stmtScanStep(seg, st) ==
  LET i == st.i
      c == At(seg, i)
      n == Len(seg)
  IN  IF st.inLine THEN [st EXCEPT !.inLine = (c # "\n"), !.i = i + 1]
      ELSE IF st.inSlashStar THEN
        IF c = "*" /\ i + 1 < n /\ At(seg, i + 1) = "/"
        THEN [st EXCEPT !.inSlashStar = FALSE, !.i = i + 2]
        ELSE [st EXCEPT !.i = i + 1]
      ELSE IF st.inString THEN
        IF c = "\\" /\ i + 1 < n THEN [st EXCEPT !.i = i + 2]
        ELSE [st EXCEPT !.inString = (c # "\""), !.i = i + 1]
      ELSE IF c = "/" /\ i + 1 < n /\ At(seg, i + 1) = "*"
        THEN [st EXCEPT !.inSlashStar = TRUE, !.i = i + 2]
      ELSE IF c = "/" /\ i + 1 < n /\ At(seg, i + 1) = "/"
        THEN [st EXCEPT !.inLine = TRUE, !.i = i + 2]
      ELSE IF c = "#" THEN [st EXCEPT !.inLine = TRUE, !.i = i + 1]
      ELSE IF c = "\"" THEN [st EXCEPT !.inString = TRUE, !.i = i + 1]
      ELSE IF c = "{" THEN
        [st EXCEPT !.braceOpen = IF st.depth = 0 /\ st.braceOpen < 0 THEN i ELSE @,
                   !.depth = @ + 1, !.i = i + 1]
      ELSE IF c = "}" THEN
        LET d == IF st.depth > 0 THEN st.depth - 1 ELSE st.depth
        IN  [st EXCEPT !.depth = d,
                       !.braceClose = IF d = 0 /\ st.braceOpen >= 0 /\ st.braceClose < 0
                                      THEN i ELSE @,
                       !.i = i + 1]
      ELSE [st EXCEPT !.i = i + 1]

RECURSIVE stmtScan(_, _)
stmtScan(seg, st) ==
  IF st.i < Len(seg) THEN stmtScan(seg, stmtScanStep(seg, st)) ELSE st

\* the loop of lines 247-249
RECURSIVE lbEndFrom(_, _, _)
lbEndFrom(seg, k, braceClose) ==
  IF k < Len(seg) /\ isSpace(At(seg, k)) /\ k < braceClose
  THEN lbEndFrom(seg, k + 1, braceClose)
  ELSE k

\* lines 246-249
lbEndOf(seg, braceOpen, braceClose) == lbEndFrom(seg, braceOpen + 1, braceClose)

\* the loop of lines 267-269
RECURSIVE rbEndFrom(_, _, _)
rbEndFrom(seg, k, semi) ==
  IF k < semi /\ isSpace(At(seg, k)) THEN rbEndFrom(seg, k + 1, semi) ELSE k

\* a decomposer that starts the closing brace's text on the brace's own offset
\* and so leaves the brace out of it
rbEndOfBeforeBrace(seg, braceClose, semi) == rbEndFrom(seg, braceClose, semi)

\* lines 266-269
rbEndOf(seg, braceClose, semi) == rbEndFrom(seg, braceClose + 1, semi)

RECURSIVE parseLoop(_, _, _)
RECURSIVE buildStmt(_, _, _)

\* lines 130-135 of parseRange: the trailing Raw and the result
rangeResult(s, end, st) ==
  [nodes |-> IF st.last < end
             THEN Append(st.nodes, Raw(Slice(s, st.last, end), st.last, end))
             ELSE st.nodes,
   fallback |-> st.fallback,
   panic |-> st.panic]

\* a splitter that drops the bytes after the last statement
parseRangeNoTrailingRaw(s, start, end) ==
  rangeResult(s, start,
              parseLoop(s, end,
                        [i |-> start, last |-> start, depth |-> 0, inSlashStar |-> FALSE,
                         inLine |-> FALSE, inString |-> FALSE, nodes |-> <<>>,
                         fallback |-> FALSE, panic |-> FALSE]))

\* parseRange: [nodes, fallback, panic]; its error result is always nil
parseRange(s, start, end) ==
  rangeResult(s, end,
              parseLoop(s, end,
                        [i |-> start, last |-> start, depth |-> 0, inSlashStar |-> FALSE,
                         inLine |-> FALSE, inString |-> FALSE, nodes |-> <<>>,
                         fallback |-> FALSE, panic |-> FALSE]))

\* line 149: the statement buildStmt starts from
newStmt(seg, absStart) ==
  [kind |-> "Stmt", RawText |-> seg, start |-> absStart, end |-> absStart + Len(seg),
   Keyword |-> <<>>, HeadRaw |-> <<>>, HasBlock |-> FALSE, LBraceRaw |-> <<>>,
   Body |-> <<>>, RBraceRaw |-> <<>>, TrailingAfterR |-> <<>>, Modified |-> FALSE]

\* lines 273-278: a statement without a block; kw is firstIdent(s.HeadRaw)
simpleStmt(seg, absStart, semi, kw) ==
  [err |-> FALSE, panic |-> ~kw.ok, fallback |-> FALSE,
   stmt |-> [newStmt(seg, absStart) EXCEPT !.HeadRaw = Slice(seg, 0, semi),
                                           !.Keyword = ToLower(kw.tok)]]

\* the slice expression seg[a:b] is in range
sliceInRange(seg, a, b) == 0 <= a /\ a <= b /\ b <= Len(seg)

\* lines 243-278: a statement with a block; inner is the parsed body, kw is
\* firstIdent(s.HeadRaw); panic when a slice expression is out of range
blockStmt(seg, absStart, braceOpen, braceClose, semi, lbEnd, rbEnd, inner, kw) ==
  [err |-> FALSE,
   panic |-> \/ inner.panic
             \/ ~kw.ok
             \/ ~sliceInRange(seg, braceOpen, lbEnd)
             \/ ~sliceInRange(seg, lbEnd, braceClose)
             \/ ~sliceInRange(seg, braceClose, rbEnd)
             \/ ~sliceInRange(seg, rbEnd, semi),
   fallback |-> inner.fallback,
   stmt |-> [newStmt(seg, absStart) EXCEPT !.HasBlock = TRUE,
                                           !.HeadRaw = Slice(seg, 0, braceOpen),
                                           !.LBraceRaw = Slice(seg, braceOpen, lbEnd),
                                           !.Body = inner.nodes,
                                           !.RBraceRaw = Slice(seg, braceClose, rbEnd),
                                           !.TrailingAfterR = Slice(seg, rbEnd, semi),
                                           !.Keyword = ToLower(kw.tok)]]

\* lines 252-264: the body src[absStart+lbEnd, absStart+braceClose), parsed
parseBody(s, absStart, lbEnd, braceClose) ==
  IF braceClose - lbEnd > 0
  THEN parseRange(s, absStart + lbEnd, absStart + braceClose)
  ELSE [nodes |-> <<>>, fallback |-> FALSE, panic |-> FALSE]

\* lines 242-278 for a statement with a block
decomposeBlock(s, seg, absStart, braceOpen, braceClose, semi, lbEnd) ==
  blockStmt(seg, absStart, braceOpen, braceClose, semi, lbEnd,
            rbEndOf(seg, braceClose, semi),
            parseBody(s, absStart, lbEnd, braceClose),
            firstIdent(Slice(seg, 0, braceOpen)))

\* lines 236-279 of buildStmt, after the scan
decompose(s, seg, absStart, braceOpen, braceClose, semi) ==
  IF semi < 0
  THEN [err |-> TRUE, panic |-> FALSE, fallback |-> FALSE, stmt |-> newStmt(seg, absStart)]
  ELSE IF braceOpen >= 0 /\ braceClose >= 0 /\ braceClose > braceOpen
    THEN decomposeBlock(s, seg, absStart, braceOpen, braceClose, semi,
                        lbEndOf(seg, braceOpen, braceClose))
  ELSE simpleStmt(seg, absStart, semi, firstIdent(Slice(seg, 0, semi)))

\* lines 236-279 of buildStmt, given the state the scan ends in
decomposeScanned(s, seg, absStart, sc) ==
  decompose(s, seg, absStart, sc.braceOpen, sc.braceClose, LastIndexByte(seg, ";"))

\* buildStmt: [err, panic, fallback, stmt]
buildStmt(s, seg, absStart) ==
  decomposeScanned(s, seg, absStart,
                   stmtScan(seg, [i |-> 0, depth |-> 0, inSlashStar |-> FALSE,
                                  inLine |-> FALSE, inString |-> FALSE,
                                  braceOpen |-> -1, braceClose |-> -1]))

\* lines 111-113: the Raw in front of the statement
withRaw(s, st, stmtStart) ==
  IF stmtStart > st.last
  THEN Append(st.nodes, Raw(Slice(s, st.last, stmtStart), st.last, stmtStart))
  ELSE st.nodes

\* lines 116-123: b is the result of buildStmt on src[stmtStart : i+1]
emitBuilt(s, st, stmtStart, b) ==
  [st EXCEPT !.nodes = IF b.err
                       THEN Append(withRaw(s, st, stmtStart),
                                   Raw(Slice(s, stmtStart, st.i + 1), stmtStart, st.i + 1))
                       ELSE Append(withRaw(s, st, stmtStart), b.stmt),
             !.fallback = @ \/ b.err \/ b.fallback,
             !.panic = @ \/ b.panic,
             !.last = st.i + 1,
             !.i = st.i + 1]

\* lines 114-123
emitFrom(s, st, stmtStart) ==
  emitBuilt(s, st, stmtStart, buildStmt(s, Slice(s, stmtStart, st.i + 1), stmtStart))

\* lines 104-125: a semicolon at depth 0 ends a statement
emitStmt(s, st) == emitFrom(s, st, findStmtStart(s, st.last, st.i))

\* one iteration of the loop of parseRange (lines 26-127)
parseStep(s, end, st) ==
  LET i == st.i
      c == At(s, i)
  IN  IF st.inLine THEN [st EXCEPT !.inLine = (c # "\n"), !.i = i + 1]
      ELSE IF st.inSlashStar THEN
        IF c = "*" /\ i + 1 < end /\ At(s, i + 1) = "/"
        THEN [st EXCEPT !.inSlashStar = FALSE, !.i = i + 2]
        ELSE [st EXCEPT !.i = i + 1]
      ELSE IF st.inString THEN
        IF c = "\\" THEN [st EXCEPT !.i = IF i + 1 < end THEN i + 2 ELSE i + 1]
        ELSE [st EXCEPT !.inString = (c # "\""), !.i = i + 1]
      ELSE IF c = "/" /\ i + 1 < end /\ At(s, i + 1) = "*"
        THEN [st EXCEPT !.inSlashStar = TRUE, !.i = i + 2]
      ELSE IF c = "/" /\ i + 1 < end /\ At(s, i + 1) = "/"
        THEN [st EXCEPT !.inLine = TRUE, !.i = i + 2]
      ELSE IF c = "#" THEN [st EXCEPT !.inLine = TRUE, !.i = i + 1]
      ELSE IF c = "\"" THEN [st EXCEPT !.inString = TRUE, !.i = i + 1]
      ELSE IF c = "{" THEN [st EXCEPT !.depth = @ + 1, !.i = i + 1]
      ELSE IF c = "}" THEN [st EXCEPT !.depth = IF @ > 0 THEN @ - 1 ELSE @, !.i = i + 1]
      ELSE IF c = ";" /\ st.depth = 0 THEN emitStmt(s, st)
      ELSE [st EXCEPT !.i = i + 1]

\* a splitter that loses the line-comment context after every byte
parseLoopNoLineComment(s, end, st) ==
  IF st.i < end
  THEN parseLoop(s, end, [parseStep(s, end, st) EXCEPT !.inLine = FALSE])
  ELSE st

\* the loop of parseRange (lines 25-128)
parseLoop(s, end, st) ==
  IF st.i < end THEN parseLoop(s, end, parseStep(s, end, st)) ELSE st

-----------------------------------------------------------------------------
(* The writer (Raw.writeTo, Stmt.writeTo, File.Bytes) *)

\* bytes.IndexByte(b, "\n"), 1-based, 0 when there is none
RECURSIVE IndexNewline(_, _)
IndexNewline(b, k) ==
  IF k > Len(b) THEN 0 ELSE IF b[k] = "\n" THEN k ELSE IndexNewline(b, k + 1)

\* bytes.Split(b, "\n"), given the 1-based index p of the first newline (0: none)
RECURSIVE SplitLines(_)
splitAt(b, p) ==
  IF p = 0 THEN <<b>>
  ELSE <<SubSeq(b, 1, p - 1)>> \o SplitLines(SubSeq(b, p + 1, Len(b)))

\* bytes.Split(b, "\n")
SplitLines(b) == splitAt(b, IndexNewline(b, 1))

\* an indenter that prefixes a node's first line only
indentNodeFirstLineOnly(inner) == IF Len(inner) > 0 THEN <<" ", " ">> \o inner ELSE inner

\* lines 186-195: the lines of one body node, indented
indentLines(lines) ==
  Concat([k \in 1..Len(lines) |->
            IF k < Len(lines) THEN <<" ", " ">> \o lines[k] \o <<"\n">>
            ELSE IF Len(lines[k]) > 0 THEN <<" ", " ">> \o lines[k]
            ELSE <<>>])

\* lines 185-195: one body node's bytes, indented
indentNode(inner) == indentLines(SplitLines(inner))

RECURSIVE writeTo(_)
\* lines 198-200: a newline in front of the closing brace unless one is there
ensureNewline(b) == IF Len(b) = 0 \/ b[Len(b)] # "\n" THEN b \o <<"\n">> ELSE b

\* lines 171-174
blockHead(h, keyword) == IF h = <<>> THEN keyword ELSE h

\* the regenerating branch of Stmt.writeTo (lines 159-203)
regenerate(s) ==
  IF ~s.HasBlock THEN
    IF s.HeadRaw = <<>> THEN s.RawText
    ELSE trimRightSpace(s.HeadRaw) \o <<";">>
  ELSE IF Len(s.Body) > 0 THEN
    ensureNewline(blockHead(trimRightSpace(s.HeadRaw), s.Keyword) \o <<" ", "{", "\n">>
                    \o Concat([k \in 1..Len(s.Body) |-> indentNode(writeTo(s.Body[k]))]))
      \o <<"}", ";">>
  ELSE blockHead(trimRightSpace(s.HeadRaw), s.Keyword) \o <<" ", "{", "}", ";">>

\* a writer that regenerates every statement
stmtWriteToAlwaysRegenerates(s) == regenerate(s)

\* Stmt.writeTo (lines 154-204)
stmtWriteTo(s) ==
  IF ~s.Modified /\ s.RawText # <<>> THEN s.RawText ELSE regenerate(s)

\* Raw.writeTo and Stmt.writeTo
writeTo(n) == IF IsRaw(n) THEN n.Text ELSE stmtWriteTo(n)

\* the statements writeTo is called on while ns is written, each with the
\* branch it takes: a statement that replays RawText never calls writeTo on
\* the statements of its Body
RECURSIVE writeCalls(_, _)
writeCalls(ns, prefix) ==
  UNION { IF IsRaw(ns[k]) THEN {}
          ELSE IF ~ns[k].Modified /\ ns[k].RawText # <<>>
            THEN {[path |-> Append(prefix, k), branch |-> "replay"]}
          ELSE IF ~ns[k].HasBlock
            THEN {[path |-> Append(prefix, k), branch |-> "regenerate"]}
          ELSE {[path |-> Append(prefix, k), branch |-> "regenerate"]}
                 \cup writeCalls(ns[k].Body, Append(prefix, k))
        : k \in 1..Len(ns) }

\* File.Bytes
Bytes(ns) == Concat([k \in 1..Len(ns) |-> writeTo(ns[k])])

-----------------------------------------------------------------------------
(* The editing helpers (editing.go) *)

MarkModified(s) == [s EXCEPT !.Modified = TRUE]

ReplaceHead(s, newHead) == [s EXCEPT !.HeadRaw = newHead, !.Modified = TRUE]

\* lines 19-26: a simple statement becomes a block statement
upgradeToBlock(s) ==
  IF ~s.HasBlock
  THEN [s EXCEPT !.HasBlock = TRUE, !.LBraceRaw = <<" ", "{">>, !.RBraceRaw = <<"}">>,
                 !.TrailingAfterR = <<>>, !.Body = <<>>]
  ELSE s

\* lines 27-28
appendNode(u, n) == [u EXCEPT !.Body = Append(@, n), !.Modified = TRUE]

\* an AppendToBody that forgets to mark the statement modified
AppendToBodyNotMarked(s, n) == [appendNode(upgradeToBlock(s), n) EXCEPT !.Modified = s.Modified]

AppendToBody(s, n) == appendNode(upgradeToBlock(s), n)

\* the zero value of Stmt
ZeroStmt ==
  [kind |-> "Stmt", RawText |-> <<>>, start |-> 0, end |-> 0, Keyword |-> <<>>,
   HeadRaw |-> <<>>, HasBlock |-> FALSE, LBraceRaw |-> <<>>, Body |-> <<>>,
   RBraceRaw |-> <<>>, TrailingAfterR |-> <<>>, Modified |-> FALSE]

\* the statement NewSimpleStmt returns for the trimmed head h; kw is firstIdent(h)
simpleStmtOf(h, kw) ==
  [ok |-> kw.ok,
   stmt |-> [ZeroStmt EXCEPT !.Keyword = ToLower(kw.tok), !.HeadRaw = h,
                             !.HasBlock = FALSE, !.Modified = TRUE]]

\* line 34
newSimpleTrimmed(h) == simpleStmtOf(h, firstIdent(h))

\* NewSimpleStmt: [ok, stmt]; ok is FALSE when firstIdent panics
NewSimpleStmt(head) == newSimpleTrimmed(TrimRightSet(head, {";", " ", "\t", "\r", "\n"}))

\* the statement NewBlockStmt returns for the trimmed head h; kw is firstIdent(h)
blockStmtOf(h, body, kw) ==
  [ok |-> kw.ok,
   stmt |-> [ZeroStmt EXCEPT !.Keyword = ToLower(kw.tok), !.HeadRaw = h,
                             !.HasBlock = TRUE, !.Body = body,
                             !.LBraceRaw = <<" ", "{">>, !.RBraceRaw = <<"}">>,
                             !.Modified = TRUE]]

\* line 40
newBlockTrimmed(h, body) == blockStmtOf(h, body, firstIdent(h))

\* NewBlockStmt: [ok, stmt]; ok is FALSE when firstIdent panics
NewBlockStmt(head, body) == newBlockTrimmed(TrimSpace(head), body)

\* The statements File.Walk / File.Find hand to the caller (walkNode), each
\* named by its path: the indices from File.Nodes down through the Bodies.
RECURSIVE StmtPaths(_)
StmtPaths(ns) ==
  UNION { IF IsStmt(ns[k])
          THEN {<<k>>} \cup {<<k>> \o q : q \in StmtPaths(ns[k].Body)}
          ELSE {}
        : k \in 1..Len(ns) }

\* the statement a path names
RECURSIVE NodeAt(_, _)
NodeAt(ns, p) ==
  IF Len(p) = 1 THEN ns[p[1]] ELSE NodeAt(ns[p[1]].Body, Tail(p))

\* the tree after the statement a path names has been changed in place
RECURSIVE StoreAt(_, _, _)
StoreAt(ns, p, new) ==
  IF Len(p) = 1 THEN [ns EXCEPT ![p[1]] = new]
  ELSE LET parent == ns[p[1]]
       IN  [ns EXCEPT ![p[1]] = [parent EXCEPT !.Body = StoreAt(parent.Body, Tail(p), new)]]

-----------------------------------------------------------------------------
(* Inputs *)

Alphabet == {"{", "}", ";", "\"", "/", "*", "#", "\n", " ", "\\", "a"}

\* the structural bytes alone, for longer inputs with nested blocks
Core == {"{", "}", ";", " ", "a"}

\* zone "a{b" { };
ZoneExample ==
  <<"z", "o", "n", "e", " ", "\"", "a", "{", "b", "\"", " ", "{", " ", "}", ";">>

\* options {\n  recursion no;\n};\ninclude "/etc/x.zones";\n
EndToEndExample ==
  <<"o", "p", "t", "i", "o", "n", "s", " ", "{", "\n", " ", " ", "r", "e", "c", "u",
    "r", "s", "i", "o", "n", " ", "n", "o", ";", "\n", "}", ";", "\n", "i", "n", "c",
    "l", "u", "d", "e", " ", "\"", "/", "e", "t", "c", "/", "x", ".", "z", "o", "n",
    "e", "s", "\"", ";", "\n">>

\* recursion no;
RecursionExample ==
  <<"r", "e", "c", "u", "r", "s", "i", "o", "n", " ", "n", "o", ";">>

\* # c\noptions { /* ; */ a; // }\n};
CommentExample ==
  <<"#", " ", "c", "\n", "o", "p", "t", "i", "o", "n", "s", " ", "{", " ", "/", "*",
    " ", ";", " ", "*", "/", " ", "a", ";", " ", "/", "/", " ", "}", "\n", "}", ";">>

Examples == {ZoneExample, EndToEndExample, RecursionExample, CommentExample}

Inputs == StringsOver(Alphabet, MaxLen) \cup StringsOver(Core, MaxCoreLen) \cup Examples

-----------------------------------------------------------------------------
(* Parsing and serializing an unedited file *)

NoOp == [op |-> "none"]

\* Parse has returned a File
Parsed == pc \in {"parsed", "written"}

InitWith(input) ==
  /\ src = input
  /\ nodes = <<>>
  /\ out = <<>>
  /\ visited = {}
  /\ made = NoOp
  /\ lastOp = NoOp
  /\ nEdits = 0
  /\ pc = "start"
  /\ err = FALSE
  /\ fallback = FALSE
  /\ panicked = FALSE

InitParse == \E input \in Inputs : InitWith(input)

\* Parse(src)
Parse ==
  /\ pc = "start"
  /\ ~panicked
  /\ \E r \in {parseRange(src, 0, Len(src))} :
       /\ panicked' = r.panic
       /\ fallback' = r.fallback
       /\ nodes' = IF r.panic THEN nodes ELSE r.nodes
       /\ pc' = IF r.panic THEN "start" ELSE "parsed"
  /\ err' = FALSE
  /\ lastOp' = [op |-> "Parse"]
  /\ UNCHANGED <<src, out, visited, made, nEdits>>

\* File.Bytes()
WriteFile ==
  /\ pc \in {"parsed", "written"}
  /\ out' = Bytes(nodes)
  /\ visited' = writeCalls(nodes, <<>>)
  /\ pc' = "written"
  /\ UNCHANGED <<src, nodes, made, lastOp, nEdits, err, fallback, panicked>>

NextParse == Parse \/ WriteFile

SpecParse == InitParse /\ [][NextParse]_vars

-----------------------------------------------------------------------------
(* Editing a parsed file *)

\* a{b;c;};
TwoInBodyExample == <<"a", "{", "b", ";", "c", ";", "}", ";">>

\* a{b{c;};};
NestedExample == <<"a", "{", "b", "{", "c", ";", "}", ";", "}", ";">>

\* the bytes of the short inputs that are edited
EditCore == {"{", "}", ";", "a"}

EditInputs ==
  StringsOver(EditCore, MaxEditLen)
    \cup {RecursionExample, EndToEndExample, TwoInBodyExample, NestedExample}

\* the heads handed to ReplaceHead
NewHeads == {<<>>, <<"c", " ">>}

\* the nodes handed to AppendToBody: b;  b { c; };  and a comment line
NewNodes ==
  {NewSimpleStmt(<<"b">>).stmt,
   NewBlockStmt(<<"b">>, <<NewSimpleStmt(<<"c">>).stmt>>).stmt,
   Raw(<<"#", "c", "\n">>, 0, 0)}

InitEdit == \E input \in EditInputs : InitWith(input)

CanEdit == Parsed /\ nEdits < MaxEdits

\* s.MarkModified()
CallMarkModified(p) ==
  /\ CanEdit
  /\ nodes' = StoreAt(nodes, p, MarkModified(NodeAt(nodes, p)))
  /\ lastOp' = [op |-> "MarkModified", path |-> p]
  /\ nEdits' = nEdits + 1
  /\ pc' = "parsed"
  /\ out' = <<>>
  /\ visited' = {}
  /\ UNCHANGED <<src, made, err, fallback, panicked>>

\* s.ReplaceHead(newHead)
CallReplaceHead(p, newHead) ==
  /\ CanEdit
  /\ nodes' = StoreAt(nodes, p, ReplaceHead(NodeAt(nodes, p), newHead))
  /\ lastOp' = [op |-> "ReplaceHead", path |-> p, arg |-> newHead]
  /\ nEdits' = nEdits + 1
  /\ pc' = "parsed"
  /\ out' = <<>>
  /\ visited' = {}
  /\ UNCHANGED <<src, made, err, fallback, panicked>>

\* s.AppendToBody(n)
CallAppendToBody(p, n) ==
  /\ CanEdit
  /\ nodes' = StoreAt(nodes, p, AppendToBody(NodeAt(nodes, p), n))
  /\ lastOp' = [op |-> "AppendToBody", path |-> p, arg |-> n, before |-> NodeAt(nodes, p)]
  /\ nEdits' = nEdits + 1
  /\ pc' = "parsed"
  /\ out' = <<>>
  /\ visited' = {}
  /\ UNCHANGED <<src, made, err, fallback, panicked>>

NextEdit ==
  \/ Parse
  \/ WriteFile
  \/ \E p \in StmtPaths(nodes) : CallMarkModified(p)
  \/ \E p \in StmtPaths(nodes) : \E h \in NewHeads : CallReplaceHead(p, h)
  \/ \E p \in StmtPaths(nodes) : \E n \in NewNodes : CallAppendToBody(p, n)

SpecEdit == InitEdit /\ [][NextEdit]_vars

-----------------------------------------------------------------------------
(* Building statements *)

HeadAlphabet == {" ", "\n", ";", "\"", "#", "/", "*", "a", "A"}

\* the heads of the documented examples: "  OPTIONS" and "\"view\" myview"
OptionsHead == <<" ", " ", "O", "P", "T", "I", "O", "N", "S">>
ViewHead == <<"\"", "v", "i", "e", "w", "\"", " ", "m", "y", "v", "i", "e", "w">>

Heads == StringsOver(HeadAlphabet, MaxHead) \cup {OptionsHead, ViewHead}

InitNew == InitWith(<<>>)

\* NewSimpleStmt(head)
CallNewSimpleStmt(head) ==
  /\ pc = "start"
  /\ \E r \in {NewSimpleStmt(head)} :
       /\ panicked' = ~r.ok
       /\ made' = IF r.ok THEN r.stmt ELSE made
       /\ pc' = IF r.ok THEN "built" ELSE "panicked"
  /\ lastOp' = [op |-> "NewSimpleStmt", head |-> head]
  /\ UNCHANGED <<src, nodes, out, visited, nEdits, err, fallback>>

\* NewBlockStmt(head, nil)
CallNewBlockStmt(head) ==
  /\ pc = "start"
  /\ \E r \in {NewBlockStmt(head, <<>>)} :
       /\ panicked' = ~r.ok
       /\ made' = IF r.ok THEN r.stmt ELSE made
       /\ pc' = IF r.ok THEN "built" ELSE "panicked"
  /\ lastOp' = [op |-> "NewBlockStmt", head |-> head]
  /\ UNCHANGED <<src, nodes, out, visited, nEdits, err, fallback>>

NextNew ==
  \/ \E head \in Heads : CallNewSimpleStmt(head)
  \/ \E head \in Heads : CallNewBlockStmt(head)

SpecNew == InitNew /\ [][NextNew]_vars

-----------------------------------------------------------------------------
(* Vocabulary of the properties *)

\* every statement of a tree, at any depth
RECURSIVE AllStmts(_)
AllStmts(ns) ==
  UNION { IF IsStmt(ns[k]) THEN {ns[k]} \cup AllStmts(ns[k].Body) ELSE {} : k \in 1..Len(ns) }

\* the original text a node stands for
Verbatim(n) == IF IsRaw(n) THEN n.Text ELSE n.RawText

VerbatimAll(ns) == Concat([k \in 1..Len(ns) |-> Verbatim(ns[k])])

\* The scanner contract, stated on its own: the context of every byte of s
\* ("Normal", "Line", "Block", "String"; the bytes of an opener and of a closer
\* belong to the comment or string) and the brace depth in front of it.  A
\* closing brace at depth 0 leaves the depth at 0.
ClassifyStep(s, st) ==
  LET k == st.k
      c == s[k]
      two == k < Len(s)
      nx == IF two THEN s[k + 1] ELSE "EOF"
      one(ctx, mode, d) ==
        [k |-> k + 1, mode |-> mode, depth |-> d,
         acc |-> Append(st.acc, [ctx |-> ctx, depth |-> st.depth])]
      pair(ctx, mode) ==
        [k |-> k + 2, mode |-> mode, depth |-> st.depth,
         acc |-> st.acc \o <<[ctx |-> ctx, depth |-> st.depth],
                             [ctx |-> ctx, depth |-> st.depth]>>]
  IN  CASE st.mode = "Line" ->
             one("Line", IF c = "\n" THEN "Normal" ELSE "Line", st.depth)
        [] st.mode = "Block" ->
             IF c = "*" /\ nx = "/" THEN pair("Block", "Normal")
             ELSE one("Block", "Block", st.depth)
        [] st.mode = "String" ->
             IF c = "\\" /\ two THEN pair("String", "String")
             ELSE one("String", IF c = "\"" THEN "Normal" ELSE "String", st.depth)
        [] OTHER ->
             IF c = "/" /\ nx = "*" THEN pair("Block", "Block")
             ELSE IF c = "/" /\ nx = "/" THEN pair("Line", "Line")
             ELSE IF c = "#" THEN one("Line", "Line", st.depth)
             ELSE IF c = "\"" THEN one("String", "String", st.depth)
             ELSE IF c = "{" THEN one("Normal", "Normal", st.depth + 1)
             ELSE IF c = "}"
               THEN one("Normal", "Normal", IF st.depth > 0 THEN st.depth - 1 ELSE 0)
             ELSE one("Normal", "Normal", st.depth)

RECURSIVE Classify(_, _)
Classify(s, st) == IF st.k > Len(s) THEN st.acc ELSE Classify(s, ClassifyStep(s, st))

Contexts(s) == Classify(s, [k |-> 1, mode |-> "Normal", depth |-> 0, acc |-> <<>>])

\* the 1-based positions lo+1..hi of s that hold byte c in Normal context
NormalAt(s, G, c, lo, hi) == {k \in (lo + 1)..hi : s[k] = c /\ G[k].ctx = "Normal"}

\* 0-based offsets of the parts of a parsed block statement
BraceOpenOf(n) == n.start + Len(n.HeadRaw)
BodyStartOf(n) == n.start + Len(n.HeadRaw) + Len(n.LBraceRaw)
BraceCloseOf(n) == n.end - 1 - Len(n.TrailingAfterR) - Len(n.RBraceRaw)

StartsWithComment(s) ==
  \/ Len(s) >= 1 /\ s[1] = "#"
  \/ Len(s) >= 2 /\ s[1] = "/" /\ s[2] \in {"/", "*"}

-----------------------------------------------------------------------------
(* Properties of parsing *)

\* C1: Parse(b) followed by File.Bytes(), with no statement marked modified,
\* yields exactly b.
RoundTrip == pc = "written" => out = src

\* C1 witness: a file with a statement nested in a block has been written back
RoundTripWitness ==
  /\ pc = "written"
  /\ out = src
  /\ \E n \in AllStmts(nodes) : n.HasBlock /\ AllStmts(n.Body) # {}

\* C2: Parse never fails: no segment handed to buildStmt lacks its semicolon
\* (the Raw fallback is never taken), nothing goes out of range, and Parse
\* returns a File with a nil error.
ParseNeverFails ==
  /\ ~err
  /\ ~fallback
  /\ ~panicked
  /\ lastOp.op = "Parse" => Parsed

\* C2 witness: Parse returned a file with a nested statement and with a head
\* whose keyword extraction had to skip a leading comment
ParseNeverFailsWitness ==
  /\ pc = "parsed"
  /\ \E n \in AllStmts(nodes) : StartsWithComment(n.HeadRaw)
  /\ \E n \in AllStmts(nodes) : n.HasBlock /\ AllStmts(n.Body) # {}

\* the statement ends among ns are exactly the Normal-context semicolons of
\* src[lo, hi) at brace depth d, and so on inside every block
RECURSIVE BoundariesOK(_, _, _, _, _)
BoundariesOK(G, ns, lo, hi, d) ==
  /\ {ns[k].end : k \in {j \in 1..Len(ns) : IsStmt(ns[j])}}
       = {k \in NormalAt(src, G, ";", lo, hi) : G[k].depth = d}
  /\ \A k \in 1..Len(ns) :
       IsStmt(ns[k]) =>
         LET n == ns[k]
         IN  IF n.HasBlock
             THEN /\ NormalAt(src, G, "{", n.start, BraceOpenOf(n)) = {}
                  /\ BraceOpenOf(n) + 1 \in NormalAt(src, G, "{", n.start, n.end)
                  /\ BraceCloseOf(n) + 1 \in NormalAt(src, G, "}", n.start, n.end)
                  /\ \A j \in NormalAt(src, G, "}", BraceOpenOf(n), BraceCloseOf(n)) :
                       G[j].depth > d + 1
                  /\ G[BraceCloseOf(n) + 1].depth = d + 1
                  /\ BoundariesOK(G, n.Body, BodyStartOf(n), BraceCloseOf(n), d + 1)
             ELSE NormalAt(src, G, "{", n.start, n.end) = {}

\* C5: a brace or semicolon inside a string or a comment never changes the
\* brace depth and never ends a statement, in the splitter and in the
\* decomposer: the statement ends and block braces of the tree are exactly
\* those the scanner contract gives, and zone "a{b" { }; is one block
\* statement whose head is zone "a{b" (followed by its blank).
BoundariesIgnoreStringsAndComments ==
  Parsed =>
    /\ BoundariesOK(Contexts(src), nodes, 0, Len(src), 0)
    /\ src = ZoneExample =>
         /\ Len(nodes) = 1
         /\ IsStmt(nodes[1])
         /\ nodes[1].HasBlock
         /\ trimRightSpace(nodes[1].HeadRaw) = SubSeq(ZoneExample, 1, 10)

\* C5 witness: a parsed statement holds a brace or a semicolon inside a string
\* or a comment
BoundariesWitness ==
  /\ Parsed
  /\ \E n \in AllStmts(nodes) :
       \E k \in (n.start + 1)..n.end :
         src[k] \in {"{", "}", ";"} /\ Contexts(src)[k].ctx # "Normal"

\* C7: a comment in front of a statement belongs to the Raw node before it:
\* no statement's text starts with a comment.
CommentsNotAbsorbed ==
  Parsed => \A n \in AllStmts(nodes) : ~StartsWithComment(n.RawText)

\* the nodes of ns cover src[lo, hi) in order, each non-empty and holding its
\* own bytes, and so do the bodies of the block statements among them
RECURSIVE CoversRange(_, _, _)
CoversRange(ns, lo, hi) ==
  /\ (lo = hi) => ns = <<>>
  /\ (lo < hi) => /\ Len(ns) >= 1
                  /\ ns[1].start = lo
                  /\ ns[Len(ns)].end = hi
  /\ \A k \in 1..Len(ns) :
       /\ ns[k].start < ns[k].end
       /\ Verbatim(ns[k]) = Slice(src, ns[k].start, ns[k].end)
       /\ k < Len(ns) => ns[k].end = ns[k + 1].start
       /\ (IsStmt(ns[k]) /\ ns[k].HasBlock) =>
            CoversRange(ns[k].Body, BodyStartOf(ns[k]), BraceCloseOf(ns[k]))

\* a non-empty range without a Normal-context semicolon at its own depth is one Raw node
RECURSIVE SingleRawOK(_, _, _, _, _)
SingleRawOK(G, ns, lo, hi, d) ==
  /\ (lo < hi /\ {k \in NormalAt(src, G, ";", lo, hi) : G[k].depth = d} = {}) =>
       (Len(ns) = 1 /\ IsRaw(ns[1]))
  /\ \A k \in 1..Len(ns) :
       (IsStmt(ns[k]) /\ ns[k].HasBlock) =>
         SingleRawOK(G, ns[k].Body, BodyStartOf(ns[k]), BraceCloseOf(ns[k]), d + 1)

\* C9: the nodes the splitter returns for a range (the whole file and every
\* block body) are non-empty, in source order and contiguous from the start of
\* the range to its end, each holding src[Start:End]; an empty range gives no
\* node and a range with no semicolon at depth 0 gives a single Raw node.
ExactOrderedCoverage ==
  Parsed =>
    /\ CoversRange(nodes, 0, Len(src))
    /\ SingleRawOK(Contexts(src), nodes, 0, Len(src), 0)

\* C9 witness: several top-level nodes and a block body of several nodes
CoverageWitness ==
  /\ Parsed
  /\ Len(nodes) >= 2
  /\ \E n \in AllStmts(nodes) : Len(n.Body) >= 2

AllSpace(s) == \A k \in 1..Len(s) : isSpace(s[k])

\* C10: the fields of a parsed statement partition its text.
LosslessDecomposition ==
  Parsed =>
    \A n \in AllStmts(nodes) :
      /\ n.HasBlock <=> NormalAt(n.RawText, Contexts(n.RawText), "{", 0, Len(n.RawText)) # {}
      /\ IF n.HasBlock
         THEN /\ n.HeadRaw \o n.LBraceRaw \o VerbatimAll(n.Body) \o n.RBraceRaw
                   \o n.TrailingAfterR \o <<";">> = n.RawText
              /\ Len(n.LBraceRaw) >= 1 /\ n.LBraceRaw[1] = "{" /\ AllSpace(Tail(n.LBraceRaw))
              /\ Len(n.RBraceRaw) >= 1 /\ n.RBraceRaw[1] = "}" /\ AllSpace(Tail(n.RBraceRaw))
              /\ BodyStartOf(n) <= BraceCloseOf(n)
              /\ (BodyStartOf(n) = BraceCloseOf(n)) => n.Body = <<>>
         ELSE n.HeadRaw \o <<";">> = n.RawText

\* C10 witness: a block statement with blanks absorbed after its opening
\* brace, a body, and text between the closing brace and the semicolon
DecompositionWitness ==
  /\ Parsed
  /\ \E n \in AllStmts(nodes) :
       /\ n.HasBlock
       /\ n.Body # <<>>
       /\ Len(n.LBraceRaw) > 1
       /\ n.TrailingAfterR # <<>>

-----------------------------------------------------------------------------
(* Properties of editing *)

\* t with two spaces in front of every line: in front of its first byte and
\* of every byte that follows a newline
PrefixLines(t) ==
  Concat([k \in 1..Len(t) |->
            IF k = 1 \/ t[k - 1] = "\n" THEN <<" ", " ", t[k]>> ELSE <<t[k]>>])

\* t, with a newline added unless it ends in one
NewlineEnded(t) == IF t # <<>> /\ t[Len(t)] = "\n" THEN t ELSE t \o <<"\n">>

\* the head a regenerated block statement is written with
WrittenHead(n) ==
  IF trimRightSpace(n.HeadRaw) = <<>> THEN n.Keyword ELSE trimRightSpace(n.HeadRaw)

\* a regenerated block statement with a body: each body node's own
\* serialization has two spaces in front of each of its lines
NodeWiseBlock(n) ==
  NewlineEnded(WrittenHead(n) \o <<" ", "{", "\n">>
                 \o Concat([k \in 1..Len(n.Body) |-> PrefixLines(writeTo(n.Body[k]))]))
    \o <<"}", ";">>

\* a regenerated block statement with a body: the concatenated serialization
\* of the body has two spaces in front of each of its lines
WholeBodyBlock(n) ==
  NewlineEnded(trimRightSpace(n.HeadRaw) \o <<" ", "{", "\n">>
                 \o PrefixLines(Concat([k \in 1..Len(n.Body) |-> writeTo(n.Body[k])])))
    \o <<"}", ";">>

RegeneratedBlock(n) == IsStmt(n) /\ n.Modified /\ n.HasBlock /\ n.Body # <<>>

\* C3: once a statement, top-level or nested, is marked modified it stays
\* marked, and every later File.Bytes() calls writeTo on it and regenerates it.
ModifiedStickyAndEffective ==
  [][/\ \A p \in StmtPaths(nodes) :
          NodeAt(nodes, p).Modified =>
            (p \in StmtPaths(nodes') /\ NodeAt(nodes', p).Modified)
     /\ pc' = "written" =>
          \A p \in StmtPaths(nodes') :
            NodeAt(nodes', p).Modified =>
              [path |-> p, branch |-> "regenerate"] \in visited']_vars

\* the last edit was AppendToBody on a simple statement that came from Parse
UpgradedByAppend ==
  /\ Parsed
  /\ lastOp.op = "AppendToBody"
  /\ ~lastOp.before.HasBlock
  /\ lastOp.before.RawText # <<>>

\* the fields of a statement AppendToBody(n) has upgraded
UpgradedFields(s, n) ==
  /\ s.HasBlock
  /\ s.LBraceRaw = <<" ", "{">>
  /\ s.RBraceRaw = <<"}">>
  /\ s.TrailingAfterR = <<>>
  /\ s.Body = <<n>>
  /\ s.Modified
  /\ s.HeadRaw = lastOp.before.HeadRaw

\* File.Bytes() with the statement at top-level index k written as text
BytesWith(k, text) ==
  Concat([j \in 1..Len(nodes) |-> IF j = k THEN text ELSE writeTo(nodes[j])])

\* C4 (amended): AppendToBody(n) on a parsed simple statement with head h makes
\* it a block statement in place (HasBlock, LBraceRaw " {", RBraceRaw "}",
\* TrailingAfterR empty, Body exactly [n], Modified), and it is written as
\* trimmed(h) (its Keyword when that is empty), " {" and a newline, the
\* serialization of n with two spaces in front of each of its lines, a newline
\* unless the text so far ends in one, and "};".
BlockUpgrade ==
  UpgradedByAppend =>
    LET s == NodeAt(nodes, lastOp.path)
    IN  /\ UpgradedFields(s, lastOp.arg)
        /\ stmtWriteTo(s) =
             NewlineEnded(WrittenHead(s) \o <<" ", "{", "\n">>
                            \o PrefixLines(writeTo(lastOp.arg))) \o <<"}", ";">>
        /\ (pc = "written" /\ Len(lastOp.path) = 1) =>
             out = BytesWith(lastOp.path[1], NodeWiseBlock(s))

\* C4 witness: a parsed simple statement was upgraded with a statement of two
\* lines and the file was written
BlockUpgradeWitness ==
  /\ UpgradedByAppend
  /\ pc = "written"
  /\ Len(lastOp.path) = 1
  /\ IsStmt(lastOp.arg)
  /\ \E k \in 1..Len(writeTo(lastOp.arg)) : writeTo(lastOp.arg)[k] = "\n"

\* C4 as stated: the upgraded statement is written as trimmed(h), " {" and a
\* newline, two spaces, the serialization of n, a newline and "};".
BlockUpgradeAsStated ==
  UpgradedByAppend =>
    LET s == NodeAt(nodes, lastOp.path)
    IN  /\ UpgradedFields(s, lastOp.arg)
        /\ stmtWriteTo(s) =
             trimRightSpace(lastOp.before.HeadRaw) \o <<" ", "{", "\n", " ", " ">>
               \o writeTo(lastOp.arg) \o <<"\n", "}", ";">>

\* C8 (amended): a modified block statement with a non-empty Body is written
\* as its trimmed head (its Keyword when that is empty), " {" and a newline,
\* then each body node's own serialization with two spaces in front of each of
\* its lines (a node that follows one not ended by a newline gets its two
\* spaces in the middle of the output line), a newline unless the text so far
\* ends in one, and "};"; the lines of a nested regenerated block get two more
\* spaces per level.
RegeneratedIndentation ==
  Parsed =>
    /\ \A n \in AllStmts(nodes) : RegeneratedBlock(n) => stmtWriteTo(n) = NodeWiseBlock(n)
    /\ pc = "written" =>
         out = Concat([k \in 1..Len(nodes) |->
                         IF RegeneratedBlock(nodes[k]) THEN NodeWiseBlock(nodes[k])
                         ELSE writeTo(nodes[k])])

\* C8 witness: a written file holds a regenerated block whose body has several
\* nodes, one of them a regenerated block itself
RegeneratedIndentationWitness ==
  /\ pc = "written"
  /\ \E k \in 1..Len(nodes) :
       /\ RegeneratedBlock(nodes[k])
       /\ Len(nodes[k].Body) >= 2
       /\ \E j \in 1..Len(nodes[k].Body) : RegeneratedBlock(nodes[k].Body[j])

\* C8 as stated: the body is written as the concatenated serialization of its
\* nodes with two spaces in front of every line, after the trimmed head.
IndentationAsStated ==
  Parsed =>
    \A n \in AllStmts(nodes) : RegeneratedBlock(n) => stmtWriteTo(n) = WholeBodyBlock(n)

-----------------------------------------------------------------------------
(* Properties of keyword extraction *)

\* the 0-based offset of the first byte of h that is neither whitespace nor
\* part of a comment (Len(h) when there is none)
RECURSIVE TokenStart(_, _, _)
TokenStart(h, G, k) ==
  IF k < Len(h) /\ (G[k + 1].ctx \in {"Line", "Block"} \/ isSpace(At(h, k)))
  THEN TokenStart(h, G, k + 1)
  ELSE k

\* the 0-based offset of the first whitespace, "{" or ";" at or after k
RECURSIVE TokenEnd(_, _)
TokenEnd(h, k) ==
  IF k < Len(h) /\ ~(isSpace(At(h, k)) \/ At(h, k) \in {"{", ";"})
  THEN TokenEnd(h, k + 1)
  ELSE k

\* the keyword of head h: its first token after the leading whitespace and
\* comments, without surrounding double quotes, in lower case
KeywordOf(h) ==
  LET a == TokenStart(h, Contexts(h), 0)
  IN  ToLower(TrimSet(Slice(h, a, TokenEnd(h, a)), {"\""}))

\* C6: keyword extraction never fails and gives the lowercased first token of
\* the head after its leading whitespace and comments, quotes stripped: the
\* empty string for a head of comments and whitespace only, options for
\* "  OPTIONS" and view for "\"view\" myview".
KeywordTotalAndCorrect ==
  /\ ~panicked
  /\ pc = "built" =>
       /\ made.Keyword = KeywordOf(made.HeadRaw)
       /\ lastOp.head = OptionsHead => made.Keyword = <<"o", "p", "t", "i", "o", "n", "s">>
       /\ lastOp.head = ViewHead => made.Keyword = <<"v", "i", "e", "w">>

====
